---- MODULE Spec2Model ----
(***************************************************************************)
(* Model of src/index.py, the Amazon sales dashboard script.               *)
(*                                                                         *)
(* The script is re-executed top to bottom on every UI interaction.  One   *)
(* process is a sequence of such runs that share the st.cache_data cache   *)
(* of load_data.  A run is the sequence of the script's sections: load,    *)
(* guard, the four sidebar filters, the KPIs, the four tabs and the raw    *)
(* preview.                                                                *)
(*                                                                         *)
(* Text is a sequence of character codes, so that str.strip, str.upper     *)
(* and the ordering of strings are computed as Python computes them.  A    *)
(* cell of the data frame is <<>> when missing (NaN, NaT, None) and <<v>>  *)
(* otherwise.  Amounts are integers (pandas holds them as floats).         *)
(***************************************************************************)
EXTENDS Integers, Sequences, FiniteSets, TLC

\* ------------------------------------------------------------------------
\* Bounds of the explored inputs
\* ------------------------------------------------------------------------
\* rows of an explored input file
MaxRows == 2
\* days on which an order can be dated (1..MaxDate)
MaxDate == 3
\* largest amount of one order
MaxAmount == 2
\* largest refund (negative amount) of one order
MaxRefund == 1
\* script runs in one process
MaxRuns == 2
\* rows beyond a chart's top-N in the explored many-group files
MaxExtra == 2
\* strides of the amount pattern of the many-group files
MaxStride == 2

\* ------------------------------------------------------------------------
\* Program constants
\* ------------------------------------------------------------------------
TopCategories == 12
TopProducts == 10
top_n == 150
FallbackRows == 30
PreviewRows == 1000

\* ------------------------------------------------------------------------
\* Cells and text
\* ------------------------------------------------------------------------
NaN == <<>>
None == <<>>
Some(v) == <<v>>
IsNa(c) == Len(c) = 0
Val(c) == c[1]

Min2(a, b) == IF a <= b THEN a ELSE b

\* str.upper on one character code
UpperChar(ch) == IF ch >= 97 /\ ch <= 122 THEN ch - 32 ELSE ch
StrUpper(s) == [i \in 1..Len(s) |-> UpperChar(s[i])]

\* str.strip: leading and trailing whitespace removed
IsSpace(ch) == ch \in {9, 10, 11, 12, 13, 32}
RECURSIVE LStrip(_)
LStrip(s) == IF Len(s) > 0 /\ IsSpace(s[1]) THEN LStrip(Tail(s)) ELSE s
RECURSIVE RStrip(_)
RStrip(s) ==
    IF Len(s) > 0 /\ IsSpace(s[Len(s)]) THEN RStrip(SubSeq(s, 1, Len(s) - 1)) ELSE s
Strip(s) == RStrip(LStrip(s))

\* Python's < on str: lexicographic by code point
RECURSIVE StrLess(_, _)
StrLess(a, b) ==
    IF Len(b) = 0 THEN FALSE
    ELSE IF Len(a) = 0 THEN TRUE
    ELSE IF a[1] # b[1] THEN a[1] < b[1]
    ELSE StrLess(Tail(a), Tail(b))

IsDigit(ch) == ch >= 48 /\ ch <= 57
AllDigits(s) == Len(s) > 0 /\ \A i \in 1..Len(s) : IsDigit(s[i])
RECURSIVE ParseNat(_)
ParseNat(s) ==
    IF Len(s) = 0 THEN 0
    ELSE 10 * ParseNat(SubSeq(s, 1, Len(s) - 1)) + (s[Len(s)] - 48)

\* pd.to_numeric(errors='coerce') on one cell: text that is an optionally
\* signed run of digits becomes the number, anything else becomes NaN
ToNumeric(c) ==
    IF IsNa(c) THEN NaN
    ELSE IF AllDigits(Val(c)) THEN Some(ParseNat(Val(c)))
    ELSE IF Len(Val(c)) > 1 /\ Val(c)[1] = 45 /\ AllDigits(Tail(Val(c)))
         THEN Some(0 - ParseNat(Tail(Val(c))))
    ELSE NaN

\* pd.to_datetime(errors='coerce') on one cell.  The explored files write a
\* date as its day number; any other text is unparseable and becomes NaT
ToDatetime(c) ==
    IF IsNa(c) THEN NaN
    ELSE IF AllDigits(Val(c)) /\ ParseNat(Val(c)) >= 1 THEN Some(ParseNat(Val(c)))
    ELSE NaN

\* text of a one-digit number
Digit(n) == <<48 + n>>
\* text of a number below 1000, three digits
Digits3(n) == <<48 + (n \div 100), 48 + ((n \div 10) % 10), 48 + (n % 10)>>

\* ------------------------------------------------------------------------
\* Data frames: [cols |-> set of column names, rows |-> sequence of rows];
\* a row is [idx |-> its index label, c |-> column name -> cell]
\* ------------------------------------------------------------------------
EmptyFrame == [cols |-> {}, rows |-> <<>>]

\* pd.read_csv: one row per file line, labelled 0, 1, ...
ReadCsv(f) ==
    [cols |-> f.cols,
     rows |-> [i \in 1..Len(f.rows) |-> [idx |-> i - 1, c |-> f.rows[i]]]]

\* df.drop_duplicates(): the first of each run of equal rows is kept, with
\* its label
DropDuplicates(d) ==
    [d EXCEPT !.rows =
        SelectSeq(d.rows,
                  LAMBDA r : \A j \in 1..r.idx : d.rows[j].c # r.c)]

\* df[col] = series
SetColumn(d, col, series) ==
    [d EXCEPT !.rows = [i \in 1..Len(d.rows) |->
                          [d.rows[i] EXCEPT !.c[col] = series[i]]]]

\* next((c for c in candidates if c in df.columns), None)
RECURSIVE FirstIn(_, _)
FirstIn(candidates, cols) ==
    IF Len(candidates) = 0 THEN None
    ELSE IF Head(candidates) \in cols THEN Some(Head(candidates))
    ELSE FirstIn(Tail(candidates), cols)

date_cols == <<"Date", "date">>
possible_amount == <<"Amount", "amount", "Sale Amount", "Order Value">>
possible_qty == <<"Qty", "Quantity", "qty">>
possible_city == <<"ship-city", "Ship-City", "ship_city", "Ship City">>

RECURSIVE ConvertDates(_, _)
ConvertDates(d, names) ==
    IF Len(names) = 0 THEN d
    ELSE ConvertDates(IF Head(names) \in d.cols
                        THEN SetColumn(d, Head(names),
                                       [i \in 1..Len(d.rows) |->
                                          ToDatetime(d.rows[i].c[Head(names)])])
                        ELSE d,
                      Tail(names))

\* The body of load_data after a successful read (lines 38-56)
LoadData(f) ==
    LET d1 == DropDuplicates(ReadCsv(f))
        d2 == ConvertDates(d1, date_cols)
        amount_col == FirstIn(possible_amount, d2.cols)
        qty_col == FirstIn(possible_qty, d2.cols)
        d3 == IF ~IsNa(amount_col)
              THEN SetColumn(d2, Val(amount_col),
                             [i \in 1..Len(d2.rows) |->
                                ToNumeric(d2.rows[i].c[Val(amount_col)])])
              ELSE d2
    IN  [df |-> d3, amount_col |-> amount_col, qty_col |-> qty_col]

\* get_city_coords(): upper-case city name -> (latitude, longitude), in
\* ten-thousandths of a degree
city_coords ==
    \* BENGALURU: (12.9716, 77.5946)
    (<<66, 69, 78, 71, 65, 76, 85, 82, 85>> :> <<129716, 775946>>) @@
    \* BANGALORE: (12.9716, 77.5946)
    (<<66, 65, 78, 71, 65, 76, 79, 82, 69>> :> <<129716, 775946>>) @@
    \* MUMBAI: (19.076, 72.8777)
    (<<77, 85, 77, 66, 65, 73>> :> <<190760, 728777>>) @@
    \* NEW DELHI: (28.6139, 77.209)
    (<<78, 69, 87, 32, 68, 69, 76, 72, 73>> :> <<286139, 772090>>) @@
    \* DELHI: (28.6139, 77.209)
    (<<68, 69, 76, 72, 73>> :> <<286139, 772090>>) @@
    \* HYDERABAD: (17.385, 78.4867)
    (<<72, 89, 68, 69, 82, 65, 66, 65, 68>> :> <<173850, 784867>>) @@
    \* AHMEDABAD: (23.0225, 72.5714)
    (<<65, 72, 77, 69, 68, 65, 66, 65, 68>> :> <<230225, 725714>>) @@
    \* PUNE: (18.5204, 73.8567)
    (<<80, 85, 78, 69>> :> <<185204, 738567>>) @@
    \* CHENNAI: (13.0827, 80.2707)
    (<<67, 72, 69, 78, 78, 65, 73>> :> <<130827, 802707>>) @@
    \* KOLKATA: (22.5726, 88.3639)
    (<<75, 79, 76, 75, 65, 84, 65>> :> <<225726, 883639>>) @@
    \* JAIPUR: (26.9124, 75.7873)
    (<<74, 65, 73, 80, 85, 82>> :> <<269124, 757873>>) @@
    \* LUCKNOW: (26.8467, 80.9462)
    (<<76, 85, 67, 75, 78, 79, 87>> :> <<268467, 809462>>) @@
    \* SURAT: (21.1702, 72.8311)
    (<<83, 85, 82, 65, 84>> :> <<211702, 728311>>) @@
    \* KANPUR: (26.4499, 80.3319)
    (<<75, 65, 78, 80, 85, 82>> :> <<264499, 803319>>) @@
    \* NAGPUR: (21.1458, 79.0882)
    (<<78, 65, 71, 80, 85, 82>> :> <<211458, 790882>>)

\* get_lat / get_lon share this lookup: city_coords.get(str(city).strip().upper())
GetCoord(city) ==
    LET city_upper == StrUpper(Strip(city))
    IN  IF city_upper \in DOMAIN city_coords THEN Some(city_coords[city_upper])
        ELSE None
get_lat(city) == IF IsNa(GetCoord(city)) THEN None ELSE Some(Val(GetCoord(city))[1])
get_lon(city) == IF IsNa(GetCoord(city)) THEN None ELSE Some(Val(GetCoord(city))[2])

\* ------------------------------------------------------------------------
\* Sidebar filters (lines 92-124)
\* ------------------------------------------------------------------------
All == <<65, 108, 108>>

ColumnCells(d, col) == {d.rows[i].c[col] : i \in 1..Len(d.rows)}
\* df[col].dropna().unique()
UniqueValues(d, col) == {Val(c) : c \in {x \in ColumnCells(d, col) : ~IsNa(x)}}
\* df['Date'].isna().all()
AllNa(d, col) == \A i \in 1..Len(d.rows) : IsNa(d.rows[i].c[col])

\* line 95: the date widget exists only under this condition
HasDates(d) == "Date" \in d.cols /\ ~AllNa(d, "Date")

SetMin(S) == CHOOSE x \in S : \A y \in S : x <= y
SetMax(S) == CHOOSE x \in S : \A y \in S : y <= x
min_date(d) == SetMin(UniqueValues(d, "Date"))
max_date(d) == SetMax(UniqueValues(d, "Date"))

\* What st.date_input can return between min_value and max_value: a pair
\* start <= end, or a one-element tuple while the user has picked only the
\* start.  The default is (min_date, max_date).
DateInputs(lo, hi) ==
    {p \in (lo..hi) \X (lo..hi) : p[1] <= p[2]} \cup {<<s>> : s \in lo..hi}

\* DateBlock with missing dates filled with the start of the range before
\* the comparison (a fillna slipped into the mask)
DateBlockFillNa(d, date_range) ==
    IF HasDates(d) /\ Len(date_range) = 2
    THEN LET filled == SetColumn(d, "Date",
                                 [i \in 1..Len(d.rows) |->
                                    IF IsNa(d.rows[i].c["Date"])
                                    THEN Some(date_range[1])
                                    ELSE d.rows[i].c["Date"]])
         IN  [filled EXCEPT !.rows =
                SelectSeq(filled.rows,
                          LAMBDA r : /\ Val(r.c["Date"]) >= date_range[1]
                                     /\ Val(r.c["Date"]) <= date_range[2])]
    ELSE d

\* lines 95-106 on frame d with the widget's value
DateBlock(d, date_range) ==
    IF HasDates(d) /\ Len(date_range) = 2
    THEN [d EXCEPT !.rows =
            SelectSeq(d.rows,
                      LAMBDA r : /\ ~IsNa(r.c["Date"])
                                 /\ Val(r.c["Date"]) >= date_range[1]
                                 /\ Val(r.c["Date"]) <= date_range[2])]
    ELSE d

\* Options with the category names hard-coded instead of taken from the
\* rows that are left
OptionsHardCoded(d, col) ==
    {All} \cup UniqueValues(d, col) \cup {<<83, 101, 116>>, <<84, 111, 112>>}

\* ['All'] + sorted(df[col].dropna().unique().tolist()), as a set: the
\* order of the options only orders the widget's list
Options(d, col) == {All} \cup UniqueValues(d, col)

\* lines 108-112, 114-118, 120-124 on frame d with the widget's value
SelectBlock(d, col, sel) ==
    IF col \in d.cols /\ All \notin sel
    THEN [d EXCEPT !.rows =
            SelectSeq(d.rows,
                      LAMBDA r : ~IsNa(r.c[col]) /\ Val(r.c[col]) \in sel)]
    ELSE d


\* ------------------------------------------------------------------------
\* Aggregation (pandas sum, mean, groupby, sort_values, head)
\* ------------------------------------------------------------------------
\* df[col].sum(): missing cells are skipped, an empty sum is 0
RECURSIVE SumRange(_, _, _, _)
SumRange(rows, col, lo, hi) ==
    IF lo > hi THEN 0
    ELSE IF lo = hi THEN (IF IsNa(rows[lo].c[col]) THEN 0 ELSE Val(rows[lo].c[col]))
    ELSE SumRange(rows, col, lo, (lo + hi) \div 2)
         + SumRange(rows, col, ((lo + hi) \div 2) + 1, hi)
SumCol(rows, col) == SumRange(rows, col, 1, Len(rows))

\* df[col].count(): the cells that are not missing
CountCol(rows, col) == Cardinality({i \in 1..Len(rows) : ~IsNa(rows[i].c[col])})

\* MeanCol dividing by the number of rows (missing amounts counted as 0)
MeanColAllRows(rows, col) ==
    IF Len(rows) = 0 THEN NaN
    ELSE Some([s |-> SumCol(rows, col), n |-> Len(rows)])

\* df[col].mean(): the sum of the cells that are not missing over their
\* number, NaN when there is none.  The quotient is kept as the fraction
\* s / n.
MeanCol(rows, col) ==
    IF CountCol(rows, col) = 0 THEN NaN
    ELSE Some([s |-> SumCol(rows, col), n |-> CountCol(rows, col)])

\* '{:,.0f}' of s / n: rounded to the nearest integer, halves to even
RoundHalfEven(s, n) ==
    LET q == s \div n
        r == s % n
    IN  IF 2 * r < n THEN q
        ELSE IF 2 * r > n THEN q + 1
        ELSE IF q % 2 = 0 THEN q ELSE q + 1

\* order of group keys: dates by day, text as Python orders str
KeyLess(a, b, text) == IF text THEN StrLess(a, b) ELSE a < b

\* the keys of a groupby, ascending (sort=True, dropna=True)
SortedKeys(S, text) ==
    LET ranked == {<<Cardinality({o \in S : KeyLess(o, k, text)}) + 1, k>> : k \in S}
    IN  [r \in 1..Cardinality(S) |-> (CHOOSE p \in ranked : p[1] = r)[2]]

\* GroupBySum with dropna=False: the rows whose key is missing form one
\* more group
GroupBySumKeepNa(d, key, amount) ==
    LET keys == SortedKeys(UniqueValues(d, key), key # "Date")
        keyed == [g \in 1..Len(keys) |->
                    [key |-> keys[g],
                     sum |-> SumCol(SelectSeq(d.rows,
                                              LAMBDA r : r.c[key] = Some(keys[g])),
                                    amount)]]
        unkeyed == SelectSeq(d.rows, LAMBDA r : IsNa(r.c[key]))
    IN  IF Len(unkeyed) = 0 THEN keyed
        ELSE Append(keyed, [key |-> <<>>, sum |-> SumCol(unkeyed, amount)])

\* df.groupby(key, as_index=False)[amount].sum(): one group per key that
\* is not missing, in ascending key order; rows whose key is missing are in
\* no group
GroupBySum(d, key, amount) ==
    LET keys == SortedKeys(UniqueValues(d, key), key # "Date")
    IN  [g \in 1..Len(keys) |->
            [key |-> keys[g],
             sum |-> SumCol(SelectSeq(d.rows,
                                      LAMBDA r : r.c[key] = Some(keys[g])),
                            amount)]]

\* SortDesc with ascending=True
SortAsc(g) ==
    LET n == Len(g)
        rank == [i \in 1..n |->
                   Cardinality({j \in 1..n : \/ g[j].sum < g[i].sum
                                             \/ (g[j].sum = g[i].sum /\ j < i)}) + 1]
                \o <<>>
    IN  [r \in 1..n |-> g[CHOOSE i \in 1..n : rank[i] = r]]

\* sort_values(amount, ascending=False); equal sums keep their order
SortDesc(g) ==
    LET n == Len(g)
        rank == [i \in 1..n |->
                   Cardinality({j \in 1..n : \/ g[j].sum > g[i].sum
                                             \/ (g[j].sum = g[i].sum /\ j < i)}) + 1]
                \o <<>>
    IN  [r \in 1..n |-> g[CHOOSE i \in 1..n : rank[i] = r]]

\* .head(n)
HeadN(s, n) == SubSeq(s, 1, Min2(n, Len(s)))

\* the total of a group table's sums
RECURSIVE SumGroupRange(_, _, _)
SumGroupRange(g, lo, hi) ==
    IF lo > hi THEN 0
    ELSE IF lo = hi THEN g[lo].sum
    ELSE SumGroupRange(g, lo, (lo + hi) \div 2)
         + SumGroupRange(g, ((lo + hi) \div 2) + 1, hi)
SumGroups(g) == SumGroupRange(g, 1, Len(g))

\* ------------------------------------------------------------------------
\* What the sections after the filters compute and render
\* ------------------------------------------------------------------------
Dash == [kind |-> "dash", v |-> 0]
Num(v) == [kind |-> "num", v |-> v]
NanText == [kind |-> "nan", v |-> 0]

\* ShowSum without the placeholder branch
ShowSumAlways(x) == Num(x)

\* f"{x:,.0f}" if x else "-" for a sum (bool of a float is x != 0)
ShowSum(x) == IF x # 0 THEN Num(x) ELSE Dash

\* f"{avg_order_value:,.0f}" if avg_order_value else "-": NaN is truthy
\* in Python, so an undefined mean is formatted, as "nan"
ShowMean(m) ==
    IF IsNa(m) THEN NanText
    ELSE IF Val(m).s # 0 THEN Num(RoundHalfEven(Val(m).s, Val(m).n))
    ELSE Dash

\* lines 133-141
ComputeKPIs(d, amount_col, qty_col) ==
    LET total_orders == Len(d.rows)
        total_revenue == IF ~IsNa(amount_col) THEN SumCol(d.rows, Val(amount_col)) ELSE 0
        avg_order_value == IF ~IsNa(amount_col) THEN MeanCol(d.rows, Val(amount_col))
                           ELSE Some([s |-> 0, n |-> 1])
        total_qty == IF ~IsNa(qty_col) THEN SumCol(d.rows, Val(qty_col)) ELSE 0
    IN  [total_orders |-> total_orders,
         total_revenue |-> total_revenue,
         avg_order_value |-> avg_order_value,
         total_qty |-> total_qty,
         col1 |-> Num(total_orders),
         col2 |-> ShowSum(total_revenue),
         col3 |-> ShowMean(avg_order_value),
         col4 |-> ShowSum(total_qty)]

\* A tab's output: kind is "chart", "info" or "warning"; grouped is the
\* result of the groupby, shown the rows handed to the chart or table
TabOut(kind, grouped, shown) == [kind |-> kind, grouped |-> grouped, shown |-> shown]

\* lines 156-169
RenderTab1(d, amount_col) ==
    IF "Category" \in d.cols /\ ~IsNa(amount_col)
    THEN LET grouped == GroupBySum(d, "Category", Val(amount_col))
             cat_rev == SortDesc(grouped)
         IN  TabOut("chart", grouped, HeadN(cat_rev, TopCategories))
    ELSE TabOut("info", <<>>, <<>>)

\* lines 171-183: one point per day, in day order, neither sorted by
\* amount nor truncated
RenderTab2(d, amount_col) ==
    IF "Date" \in d.cols /\ ~IsNa(amount_col)
    THEN LET daily == GroupBySum(d, "Date", Val(amount_col))
         IN  TabOut("chart", daily, daily)
    ELSE TabOut("info", <<>>, <<>>)

\* lines 185-199
RenderTab3(d, amount_col) ==
    IF "SKU" \in d.cols \/ "Style" \in d.cols
    THEN LET prod_col == IF "SKU" \in d.cols THEN "SKU" ELSE "Style"
             grouped == GroupBySum(d, prod_col, Val(amount_col))
             top_prod == HeadN(SortDesc(grouped), TopProducts)
         IN  TabOut("chart", grouped, top_prod)
    ELSE TabOut("info", <<>>, <<>>)

\* lines 201-281.  top is city_rev after the Revenue > 0 filter, the sort
\* and head(top_n); shown is the mapped rows of the map, or the first
\* FallbackRows rows of the fallback table
RenderTab4(d, amount_col) ==
    LET city_column == FirstIn(possible_city, d.cols)
    IN  IF ~IsNa(city_column) /\ ~IsNa(amount_col)
        THEN LET grouped == GroupBySum(d, Val(city_column), Val(amount_col))
                 positive == SelectSeq(grouped, LAMBDA g : g.sum > 0)
                 city_rev == HeadN(SortDesc(positive), top_n)
                 mapped == SelectSeq(city_rev,
                                     LAMBDA g : ~IsNa(get_lat(g.key)) /\ ~IsNa(get_lon(g.key)))
                 unmatched == Len(city_rev) - Len(mapped)
             IN  IF Len(positive) = 0
                 THEN [kind |-> "info", grouped |-> grouped, top |-> <<>>,
                       shown |-> <<>>, caption |-> FALSE]
                 ELSE IF Len(mapped) = 0
                 THEN [kind |-> "warning_table", grouped |-> grouped, top |-> city_rev,
                       shown |-> HeadN(city_rev, FallbackRows), caption |-> FALSE]
                 ELSE [kind |-> "map", grouped |-> grouped, top |-> city_rev,
                       shown |-> mapped, caption |-> unmatched > 0]
        ELSE [kind |-> "warning", grouped |-> <<>>, top |-> <<>>,
              shown |-> <<>>, caption |-> FALSE]


\* ------------------------------------------------------------------------
\* The explored input files
\* ------------------------------------------------------------------------
\* "x": text that is neither a date nor a number
Garbage == <<120>>
RawDates == {Some(Garbage)} \cup {Some(Digit(k)) : k \in 1..MaxDate}
RawAmounts ==
    {Some(Garbage)} \cup {Some(Digit(k)) : k \in 0..MaxAmount}
    \cup {Some(<<45>> \o Digit(k)) : k \in 1..MaxRefund}
\* "Set", "Top"
RawCategories == {NaN, Some(<<83, 101, 116>>), Some(<<84, 111, 112>>)}
\* "Shipped", "Cancelled"
RawStatuses == {Some(<<83, 104, 105, 112, 112, 101, 100>>),
                Some(<<67, 97, 110, 99, 101, 108, 108, 101, 100>>)}
\* "Amazon", "Merchant"
RawFulfilments == {Some(<<65, 109, 97, 122, 111, 110>>),
                   Some(<<77, 101, 114, 99, 104, 97, 110, 116>>)}
\* "K1", "K2"
RawProducts == {NaN, Some(<<75, 49>>), Some(<<75, 50>>)}
\* "Pune " and "PUNE" (two groups, one coordinate), "Goa" (no coordinate)
RawCities == {NaN, Some(<<80, 117, 110, 101, 32>>), Some(<<80, 85, 78, 69>>),
              Some(<<71, 111, 97>>)}

\* The cells a column takes in the explored files.  wide names the columns
\* that range over their whole domain; every other column holds one fixed
\* value.
ColumnDomain(col, wide) ==
    IF col \in {"Date", "date"}
        THEN IF col \in wide THEN RawDates ELSE {Some(Digit(1))}
    ELSE IF col \in {"Amount", "amount", "Sale Amount", "Order Value"}
        THEN IF col \in wide THEN RawAmounts ELSE {Some(Digit(1))}
    ELSE IF col = "Category"
        THEN IF col \in wide THEN RawCategories ELSE {Some(<<83, 101, 116>>)}
    ELSE IF col = "Status"
        THEN IF col \in wide THEN RawStatuses
             ELSE {Some(<<83, 104, 105, 112, 112, 101, 100>>)}
    ELSE IF col = "Fulfilment"
        THEN IF col \in wide THEN RawFulfilments
             ELSE {Some(<<65, 109, 97, 122, 111, 110>>)}
    ELSE IF col \in {"SKU", "Style"}
        THEN IF col \in wide THEN RawProducts ELSE {Some(<<75, 49>>)}
    ELSE IF col \in {"Qty", "Quantity", "qty"}
        THEN {Some(1)}
    ELSE IF col \in wide THEN RawCities ELSE {Some(<<80, 85, 78, 69>>)}

RECURSIVE RowsOver(_, _)
RowsOver(cols, wide) ==
    IF cols = {} THEN {<<>>}
    ELSE LET col == CHOOSE x \in cols : TRUE
         IN  {(col :> v) @@ r : v \in ColumnDomain(col, wide),
                                r \in RowsOver(cols \ {col}, wide)}

SeqsUpTo(S, n) == UNION {[1..k -> S] : k \in 0..n}

FilesOver(cols, wide) ==
    {[ok |-> TRUE, cols |-> cols, rows |-> rows] :
        rows \in SeqsUpTo(RowsOver(cols, wide), MaxRows)}

\* a missing or unreadable file
NoFile == [ok |-> FALSE, cols |-> {}, rows |-> <<>>]

\* Files of whole script runs: the report's own header with the filter
\* columns varying, a header resolved through the later candidate names, a
\* header without any amount column, a header of dates and amounts only,
\* and no file at all
Files ==
    FilesOver({"Date", "Category", "Status", "Fulfilment", "Amount", "Qty",
               "SKU", "ship-city"},
              {"Date", "Category"})
    \cup FilesOver({"date", "amount", "Order Value", "Quantity", "Status",
                    "Fulfilment", "Style", "Ship City"},
                   {"Status", "Fulfilment"})
    \cup FilesOver({"Category", "Status", "Qty"}, {"Category", "Status"})
    \cup FilesOver({"Date", "Amount"}, {"Date"})
    \cup {NoFile}

\* A file of n orders, each with a category, a product and a city of its
\* own ("C007", "K007", "P007"; the first city is "Pune "), amounts
\* following the pattern 1 + (i * stride) % 4
ManyGroupsRow(i, stride) ==
    ("Category" :> Some(<<67>> \o Digits3(i))) @@
    ("SKU" :> Some(<<75>> \o Digits3(i))) @@
    ("ship-city" :> (IF i = 1 THEN Some(<<80, 117, 110, 101, 32>>)
                     ELSE Some(<<80>> \o Digits3(i)))) @@
    ("Amount" :> Some(Digit(1 + ((i * stride) % 4))))
ManyGroupsFile(n, stride) ==
    [ok |-> TRUE, cols |-> {"Category", "SKU", "ship-city", "Amount"},
     rows |-> [i \in 1..n |-> ManyGroupsRow(i, stride)]]
ManyGroupsFiles ==
    {ManyGroupsFile(n + e, stride) :
        n \in {TopCategories, TopProducts, top_n}, e \in 0..MaxExtra,
        stride \in 1..MaxStride}

\* Headers of the files of the aggregation stage: one grouping key and the
\* amount column, both over their whole domain
AggHeaders ==
    {[cols |-> {"Category", "Amount"}, wide |-> {"Category", "Amount"}],
     [cols |-> {"Date", "Amount"}, wide |-> {"Date", "Amount"}],
     [cols |-> {"SKU", "Sale Amount"}, wide |-> {"SKU", "Sale Amount"}],
     [cols |-> {"Style", "Amount", "Qty"}, wide |-> {"Style", "Amount"}],
     [cols |-> {"ship-city", "Amount"}, wide |-> {"ship-city", "Amount"}]}


\* ------------------------------------------------------------------------
\* State
\* ------------------------------------------------------------------------
VARIABLES
    file,        \* "Amazon Sale Report.csv" as it is on disk
    cache,       \* st.cache_data entry of load_data: None or Some(result)
    reads,       \* calls of pd.read_csv so far in this process
    good_reads,  \* those that returned a frame
    runs,        \* script runs started so far
    pc,          \* the section the current run is about to execute
    outcome,     \* of the latest run: "none", "running", "halted", "done"
    screen,      \* the elements rendered by the latest run, in order
    df,          \* the script's df
    AMOUNT_COL,
    QTY_COL,
    date_range,  \* value of the date widget, <<>> when it was not created
    sel_cats,    \* value of each multiselect, None when it was not created
    sel_stats,
    sel_ful,
    kpi,         \* None or Some(the metrics)
    tab1,        \* None or Some(the tab's output)
    tab2,
    tab3,
    tab4,
    preview      \* None or Some(the rows of the raw preview)

procVars == <<file, cache, reads, good_reads, runs>>
loadVars == <<df, AMOUNT_COL, QTY_COL>>
widgetVars == <<date_range, sel_cats, sel_stats, sel_ful>>
outVars == <<kpi, tab1, tab2, tab3, tab4, preview>>
vars == <<file, cache, reads, good_reads, runs, pc, outcome, screen, df,
          AMOUNT_COL, QTY_COL, date_range, sel_cats, sel_stats, sel_ful,
          kpi, tab1, tab2, tab3, tab4, preview>>

\* a multiselect that was not created filters nothing
Selected(sel) == IF IsNa(sel) THEN {All} ELSE Val(sel)

\* lines 9-25: what every run renders first
PageTop == <<"title", "markdown">>

FreshRun ==
    /\ df = EmptyFrame
    /\ AMOUNT_COL = None
    /\ QTY_COL = None
    /\ date_range = <<>>
    /\ sel_cats = None
    /\ sel_stats = None
    /\ sel_ful = None
    /\ kpi = None
    /\ tab1 = None
    /\ tab2 = None
    /\ tab3 = None
    /\ tab4 = None
    /\ preview = None

Init ==
    /\ file \in Files
    /\ cache = None
    /\ reads = 0
    /\ good_reads = 0
    /\ runs = 0
    /\ pc = "idle"
    /\ outcome = "none"
    /\ screen = <<>>
    /\ FreshRun

\* ------------------------------------------------------------------------
\* One script run
\* ------------------------------------------------------------------------
\* A UI interaction (or the first request) starts a run: nothing of the
\* previous run's locals or elements survives, the cache does
StartRun ==
    /\ pc = "idle"
    /\ runs < MaxRuns
    /\ runs' = runs + 1
    /\ pc' = "load"
    /\ outcome' = "running"
    /\ screen' = PageTop
    /\ df' = EmptyFrame
    /\ AMOUNT_COL' = None
    /\ QTY_COL' = None
    /\ date_range' = <<>>
    /\ sel_cats' = None
    /\ sel_stats' = None
    /\ sel_ful' = None
    /\ kpi' = None
    /\ tab1' = None
    /\ tab2' = None
    /\ tab3' = None
    /\ tab4' = None
    /\ preview' = None
    /\ UNCHANGED <<file, cache, reads, good_reads>>

\* CacheStore without the decorator: nothing is kept
CacheStoreNothing(result) == None

\* what st.cache_data keeps after a call of load_data that returned
CacheStore(result) == Some(result)

\* line 82, load_data already cached: the stored result is returned, the
\* function body does not run
LoadFromCache ==
    /\ pc = "load"
    /\ ~IsNa(cache)
    /\ df' = Val(cache).df
    /\ AMOUNT_COL' = Val(cache).amount_col
    /\ QTY_COL' = Val(cache).qty_col
    /\ pc' = "guard"
    /\ UNCHANGED <<procVars, outcome, screen, widgetVars, outVars>>

\* line 82, not cached, the file reads: the body runs and its result is
\* stored
LoadFromFile ==
    /\ pc = "load"
    /\ IsNa(cache)
    /\ file.ok
    /\ reads' = reads + 1
    /\ good_reads' = good_reads + 1
    /\ cache' = CacheStore(LoadData(file))
    /\ df' = LoadData(file).df
    /\ AMOUNT_COL' = LoadData(file).amount_col
    /\ QTY_COL' = LoadData(file).qty_col
    /\ pc' = "guard"
    /\ UNCHANGED <<file, runs, outcome, screen, widgetVars, outVars>>

\* lines 32-36, not cached, the read raises: st.error, st.stop; load_data
\* does not return, so nothing is stored
LoadFails ==
    /\ pc = "load"
    /\ IsNa(cache)
    /\ ~file.ok
    /\ reads' = reads + 1
    /\ screen' = Append(screen, "error")
    /\ outcome' = "halted"
    /\ pc' = "idle"
    /\ UNCHANGED <<file, cache, good_reads, runs, loadVars, widgetVars, outVars>>

\* NothingToShow without the test of AMOUNT_COL
NothingToShowRowsOnly(d, amount_col) == Len(d.rows) = 0 \/ d.cols = {}

\* line 84: df.empty or AMOUNT_COL is None
NothingToShow(d, amount_col) == Len(d.rows) = 0 \/ d.cols = {} \/ IsNa(amount_col)

\* lines 84-86
Guard ==
    /\ pc = "guard"
    /\ IF NothingToShow(df, AMOUNT_COL)
       THEN /\ screen' = Append(screen, "error")
            /\ outcome' = "halted"
            /\ pc' = "idle"
       ELSE /\ screen' = Append(screen, "sidebar")
            /\ outcome' = outcome
            /\ pc' = "date"
    /\ UNCHANGED <<procVars, loadVars, widgetVars, outVars>>

\* lines 95-106: the user's date range is any value the widget can hold
DateFilter ==
    /\ pc = "date"
    /\ IF HasDates(df)
       THEN \E dr \in DateInputs(min_date(df), max_date(df)) :
                /\ date_range' = dr
                /\ df' = DateBlock(df, dr)
       ELSE UNCHANGED <<date_range, df>>
    /\ pc' = "cat"
    /\ UNCHANGED <<procVars, outcome, screen, AMOUNT_COL, QTY_COL,
                   sel_cats, sel_stats, sel_ful, outVars>>

\* lines 108-112: the user's selection is any subset of the options, which
\* are taken from the rows that are left
CategoryFilter ==
    /\ pc = "cat"
    /\ IF "Category" \in df.cols
       THEN \E sel \in SUBSET Options(df, "Category") :
                /\ sel_cats' = Some(sel)
                /\ df' = SelectBlock(df, "Category", sel)
       ELSE UNCHANGED <<sel_cats, df>>
    /\ pc' = "status"
    /\ UNCHANGED <<procVars, outcome, screen, AMOUNT_COL, QTY_COL,
                   date_range, sel_stats, sel_ful, outVars>>

\* lines 114-118
StatusFilter ==
    /\ pc = "status"
    /\ IF "Status" \in df.cols
       THEN \E sel \in SUBSET Options(df, "Status") :
                /\ sel_stats' = Some(sel)
                /\ df' = SelectBlock(df, "Status", sel)
       ELSE UNCHANGED <<sel_stats, df>>
    /\ pc' = "ful"
    /\ UNCHANGED <<procVars, outcome, screen, AMOUNT_COL, QTY_COL,
                   date_range, sel_cats, sel_ful, outVars>>

\* lines 120-124
FulfilmentFilter ==
    /\ pc = "ful"
    /\ IF "Fulfilment" \in df.cols
       THEN \E sel \in SUBSET Options(df, "Fulfilment") :
                /\ sel_ful' = Some(sel)
                /\ df' = SelectBlock(df, "Fulfilment", sel)
       ELSE UNCHANGED <<sel_ful, df>>
    /\ pc' = "kpi"
    /\ UNCHANGED <<procVars, outcome, screen, AMOUNT_COL, QTY_COL,
                   date_range, sel_cats, sel_stats, outVars>>

\* lines 130-141
KPIs ==
    /\ pc = "kpi"
    /\ kpi' = Some(ComputeKPIs(df, AMOUNT_COL, QTY_COL))
    /\ screen' = Append(screen, "metrics")
    /\ pc' = "tab1"
    /\ UNCHANGED <<procVars, outcome, loadVars, widgetVars,
                   tab1, tab2, tab3, tab4, preview>>

\* lines 156-169
Tab1 ==
    /\ pc = "tab1"
    /\ tab1' = Some(RenderTab1(df, AMOUNT_COL))
    /\ screen' = Append(screen, "tab1")
    /\ pc' = "tab2"
    /\ UNCHANGED <<procVars, outcome, loadVars, widgetVars,
                   kpi, tab2, tab3, tab4, preview>>

\* lines 171-183
Tab2 ==
    /\ pc = "tab2"
    /\ tab2' = Some(RenderTab2(df, AMOUNT_COL))
    /\ screen' = Append(screen, "tab2")
    /\ pc' = "tab3"
    /\ UNCHANGED <<procVars, outcome, loadVars, widgetVars,
                   kpi, tab1, tab3, tab4, preview>>

\* lines 185-199
Tab3 ==
    /\ pc = "tab3"
    /\ tab3' = Some(RenderTab3(df, AMOUNT_COL))
    /\ screen' = Append(screen, "tab3")
    /\ pc' = "tab4"
    /\ UNCHANGED <<procVars, outcome, loadVars, widgetVars,
                   kpi, tab1, tab2, tab4, preview>>

\* lines 201-281
Tab4 ==
    /\ pc = "tab4"
    /\ tab4' = Some(RenderTab4(df, AMOUNT_COL))
    /\ screen' = Append(screen, "tab4")
    /\ pc' = "preview"
    /\ UNCHANGED <<procVars, outcome, loadVars, widgetVars,
                   kpi, tab1, tab2, tab3, preview>>

\* lines 287-291: the run ends
RawPreview ==
    /\ pc = "preview"
    /\ preview' = Some(HeadN(df.rows, PreviewRows))
    /\ screen' = Append(screen, "preview")
    /\ outcome' = "done"
    /\ pc' = "idle"
    /\ UNCHANGED <<procVars, loadVars, widgetVars, kpi, tab1, tab2, tab3, tab4>>

Next ==
    \/ StartRun
    \/ LoadFromCache
    \/ LoadFromFile
    \/ LoadFails
    \/ Guard
    \/ DateFilter
    \/ CategoryFilter
    \/ StatusFilter
    \/ FulfilmentFilter
    \/ KPIs
    \/ Tab1
    \/ Tab2
    \/ Tab3
    \/ Tab4
    \/ RawPreview

Spec == Init /\ [][Next]_vars


\* ------------------------------------------------------------------------
\* The aggregation stage alone: the state of a first run that has loaded a
\* file with one of the AggHeaders or a file of many groups and has passed
\* the sidebar with every multiselect at its default and the date widget at
\* its default or with only a start picked
\* ------------------------------------------------------------------------
InitAggFrom(f, partial) ==
    LET result == LoadData(f)
        dr == IF ~HasDates(result.df) THEN <<>>
              ELSE IF partial THEN <<min_date(result.df)>>
              ELSE <<min_date(result.df), max_date(result.df)>>
    IN  /\ file = f
        /\ cache = CacheStore(result)
        /\ reads = 1
        /\ good_reads = 1
        /\ runs = 1
        /\ pc = "kpi"
        /\ outcome = "running"
        /\ screen = Append(PageTop, "sidebar")
        /\ df = SelectBlock(DateBlock(result.df, dr), "Category", {All})
        /\ AMOUNT_COL = result.amount_col
        /\ QTY_COL = result.qty_col
        /\ date_range = dr
        /\ sel_cats = IF "Category" \in f.cols THEN Some({All}) ELSE None
        /\ sel_stats = None
        /\ sel_ful = None
        /\ kpi = None
        /\ tab1 = None
        /\ tab2 = None
        /\ tab3 = None
        /\ tab4 = None
        /\ preview = None

InitAgg ==
    \/ \E h \in AggHeaders, k \in 1..MaxRows :
       \E rows \in [1..k -> RowsOver(h.cols, h.wide)] :
       \E partial \in IF "Date" \in h.cols THEN BOOLEAN ELSE {FALSE} :
          InitAggFrom([ok |-> TRUE, cols |-> h.cols, rows |-> rows], partial)
    \/ \E f \in ManyGroupsFiles : InitAggFrom(f, FALSE)

NextAgg ==
    \/ KPIs
    \/ Tab1
    \/ Tab2
    \/ Tab3
    \/ Tab4
    \/ RawPreview

SpecAgg == InitAgg /\ [][NextAgg]_vars


\* ========================================================================
\* Properties
\* ========================================================================
\* the frame load_data returned in this process
Loaded == Val(cache).df
RowSet(d) == {d.rows[i] : i \in 1..Len(d.rows)}
Range(q) == {q[i] : i \in 1..Len(q)}

\* ------------------------------------------------------------------------
\* C1: at every point of every run the script's df holds only rows of the
\* loaded (deduplicated) frame, each with its label and its cells
\* unchanged, in their original order, so it never has more rows than the
\* loaded frame.
C1_FilteredWithinLoaded ==
    ~IsNa(cache) =>
        /\ RowSet(df) \subseteq RowSet(Loaded)
        /\ Len(df.rows) <= Len(Loaded.rows)
        /\ \A i, j \in 1..Len(df.rows) : i < j => df.rows[i].idx < df.rows[j].idx
        /\ df.cols \subseteq Loaded.cols

\* the filters have removed some rows and kept others
C1_Witness ==
    /\ pc = "kpi"
    /\ Len(df.rows) > 0
    /\ Len(df.rows) < Len(Loaded.rows)

\* ------------------------------------------------------------------------
\* C2 as amended: the file is read successfully at most once in a process;
\* once a result is cached no run calls the reader again or replaces the
\* entry; a run that finds no entry calls the reader; and every run that
\* reaches the sidebar starts it from the whole loaded frame and the
\* resolved columns of the cached result.
C2_Step ==
    /\ good_reads' <= 1
    /\ (~IsNa(cache) => cache' = cache /\ reads' = reads /\ good_reads' = good_reads)
    /\ (pc = "load" /\ IsNa(cache) => reads' = reads + 1)
    /\ (pc' = "date" =>
            /\ cache' = Some(LoadData(file))
            /\ df' = Val(cache').df
            /\ AMOUNT_COL' = Val(cache').amount_col
            /\ QTY_COL' = Val(cache').qty_col)
C2_ReadOnceCached == [][C2_Step]_vars

\* a second run is at the sidebar and the file was read once
C2_Witness ==
    /\ runs = 2
    /\ pc = "date"
    /\ reads = 1
    /\ Len(df.rows) > 1

\* C2 as stated: the reader is called at most once in a process, and every
\* run after the first finds the result cached.
C2_ReadAtMostOnce ==
    /\ reads <= 1
    /\ (runs > 1 /\ pc # "load" => ~IsNa(cache))

\* ------------------------------------------------------------------------
\* C3: while the file is missing or unreadable, or its header has none of
\* the candidate amount columns, no run gets past the load and the guard:
\* no widget is created, no metric, tab or preview is rendered, and a
\* finished run has rendered the page top and one error and has halted.
AmountNames == {"Amount", "amount", "Sale Amount", "Order Value"}
Unloadable == ~file.ok \/ file.cols \cap AmountNames = {}
C3_HaltsWithoutRendering ==
    Unloadable =>
        /\ pc \in {"idle", "load", "guard"}
        /\ date_range = <<>>
        /\ IsNa(sel_cats) /\ IsNa(sel_stats) /\ IsNa(sel_ful)
        /\ IsNa(kpi) /\ IsNa(tab1) /\ IsNa(tab2) /\ IsNa(tab3) /\ IsNa(tab4)
        /\ IsNa(preview)
        /\ screen \in {<<>>, PageTop, Append(PageTop, "error")}
        /\ (pc = "idle" /\ runs > 0 =>
                outcome = "halted" /\ screen = Append(PageTop, "error"))

\* a run over a readable file with rows but no amount column has halted
C3_Witness ==
    /\ outcome = "halted"
    /\ file.ok
    /\ Len(file.rows) > 0
    /\ file.cols \cap AmountNames = {}

\* ------------------------------------------------------------------------
\* C4 as amended: for each chart, the sums of all groups of its groupby
\* add up to the amounts of the filtered rows whose key is not missing,
\* and so to the total revenue metric when no row's key is missing.
KeyedRows(key) == SelectSeq(df.rows, LAMBDA r : ~IsNa(r.c[key]))
KeyedRevenue(key) == SumCol(KeyedRows(key), Val(AMOUNT_COL))
GroupsAddUp(grouped, key) ==
    /\ SumGroups(grouped) = KeyedRevenue(key)
    /\ (Len(KeyedRows(key)) = Len(df.rows) /\ ~IsNa(kpi) =>
            SumGroups(grouped) = Val(kpi).total_revenue)
ProductCol == IF "SKU" \in df.cols THEN "SKU" ELSE "Style"
CityCol == Val(FirstIn(possible_city, df.cols))
C4_GroupSumsEqualKeyedRevenue ==
    /\ (~IsNa(tab1) /\ Val(tab1).kind = "chart" =>
            GroupsAddUp(Val(tab1).grouped, "Category"))
    /\ (~IsNa(tab2) /\ Val(tab2).kind = "chart" =>
            GroupsAddUp(Val(tab2).grouped, "Date"))
    /\ (~IsNa(tab3) /\ Val(tab3).kind = "chart" =>
            GroupsAddUp(Val(tab3).grouped, ProductCol))
    /\ (~IsNa(tab4) /\ Val(tab4).kind # "warning" =>
            GroupsAddUp(Val(tab4).grouped, CityCol))

\* the category chart has groups, and a row without category carries revenue
C4_Witness ==
    /\ ~IsNa(tab1)
    /\ Val(tab1).kind = "chart"
    /\ Len(Val(tab1).grouped) > 0
    /\ Len(KeyedRows("Category")) < Len(df.rows)
    /\ SumGroups(Val(tab1).grouped) # Val(kpi).total_revenue

\* C4 as stated: for each chart, the sums of all groups add up to the
\* total revenue metric, also when rows have a missing key.
C4_GroupSumsEqualRevenue ==
    /\ (~IsNa(tab1) /\ Val(tab1).kind = "chart" =>
            SumGroups(Val(tab1).grouped) = Val(kpi).total_revenue)
    /\ (~IsNa(tab2) /\ Val(tab2).kind = "chart" =>
            SumGroups(Val(tab2).grouped) = Val(kpi).total_revenue)
    /\ (~IsNa(tab3) /\ Val(tab3).kind = "chart" =>
            SumGroups(Val(tab3).grouped) = Val(kpi).total_revenue)
    /\ (~IsNa(tab4) /\ Val(tab4).kind # "warning" =>
            SumGroups(Val(tab4).grouped) = Val(kpi).total_revenue)

\* ------------------------------------------------------------------------
\* C5 as amended: the mean is undefined exactly when no filtered row has an
\* amount; otherwise the mean times the number of rows that have an amount
\* equals total revenue, and so the mean times the order count equals total
\* revenue when every row has an amount.
ValidAmounts == Len(SelectSeq(df.rows, LAMBDA r : ~IsNa(r.c[Val(AMOUNT_COL)])))
C5_MeanTimesValidCount ==
    ~IsNa(kpi) =>
        LET k == Val(kpi)
            m == k.avg_order_value
        IN  /\ (ValidAmounts = 0 <=> IsNa(m))
            /\ (ValidAmounts > 0 =>
                    Val(m).s * ValidAmounts = k.total_revenue * Val(m).n)
            /\ (ValidAmounts > 0 /\ ValidAmounts = k.total_orders =>
                    Val(m).s * k.total_orders = k.total_revenue * Val(m).n)

\* some rows have an amount, some have none, and revenue is not zero
C5_Witness ==
    /\ ~IsNa(kpi)
    /\ ValidAmounts > 0
    /\ ValidAmounts < Val(kpi).total_orders
    /\ Val(kpi).total_revenue # 0

\* C5 as stated: whenever the order count is positive, the mean times the
\* order count equals total revenue, also when amounts are missing.
C5_MeanTimesOrderCount ==
    ~IsNa(kpi) /\ Val(kpi).total_orders > 0 =>
        LET k == Val(kpi)
            m == k.avg_order_value
        IN  /\ ~IsNa(m)
            /\ Val(m).s * k.total_orders = k.total_revenue * Val(m).n

\* ------------------------------------------------------------------------
\* C6: with the date widget at its default (min_date, max_date) and every
\* multiselect at ['All'], the frame that reaches the KPIs is the loaded
\* frame, rows with an unparseable date included.
DefaultSelection(sel) == IsNa(sel) \/ sel = Some({All})
DefaultDates ==
    IF HasDates(Loaded) THEN date_range = <<min_date(Loaded), max_date(Loaded)>>
    ELSE date_range = <<>>
AllDefaults ==
    /\ DefaultDates
    /\ DefaultSelection(sel_cats)
    /\ DefaultSelection(sel_stats)
    /\ DefaultSelection(sel_ful)
C6_DefaultsKeepEveryRow == pc = "kpi" /\ AllDefaults => df = Loaded

\* ------------------------------------------------------------------------
\* C7: when the sidebar is done, applying the four filter blocks with the
\* widgets' values to the loaded frame in any of the 24 orders gives the
\* script's df, and df holds exactly the loaded rows that each block alone
\* keeps.
FilterNames == {"date", "cat", "status", "ful"}
FilterOrders ==
    {o \in [1..Cardinality(FilterNames) -> FilterNames] :
        \A i, j \in DOMAIN o : i # j => o[i] # o[j]}
ApplyFilter(name, d) ==
    IF name = "date" THEN DateBlock(d, date_range)
    ELSE IF name = "cat" THEN SelectBlock(d, "Category", Selected(sel_cats))
    ELSE IF name = "status" THEN SelectBlock(d, "Status", Selected(sel_stats))
    ELSE SelectBlock(d, "Fulfilment", Selected(sel_ful))
RECURSIVE ApplyInOrder(_, _, _)
ApplyInOrder(o, i, d) ==
    IF i > Len(o) THEN d ELSE ApplyInOrder(o, i + 1, ApplyFilter(o[i], d))
C7_OrderIndependent ==
    pc = "kpi" =>
        /\ \A o \in FilterOrders : ApplyInOrder(o, 1, Loaded) = df
        /\ df.rows = SelectSeq(Loaded.rows,
                               LAMBDA r : \A n \in FilterNames :
                                              r \in RowSet(ApplyFilter(n, Loaded)))

\* the date range and the category selection each remove a loaded row, and
\* a row is left
C7_Witness ==
    /\ pc = "kpi"
    /\ Len(date_range) = 2
    /\ ApplyFilter("date", Loaded) # Loaded
    /\ All \notin Selected(sel_cats)
    /\ ApplyFilter("cat", Loaded) # Loaded
    /\ Len(df.rows) > 0

\* ------------------------------------------------------------------------
\* C8 as amended: when the selected date range holds no loaded row, df is
\* empty for the rest of the run, the run does not halt and ends done,
\* Total Orders shows 0 and Total Revenue the placeholder, the city tab
\* shows a message and no map, the trend tab renders a chart without
\* points, and the category and product tabs render a chart without bars
\* when their column exists and the column-missing message otherwise.
EmptyRange ==
    /\ ~IsNa(cache)
    /\ Len(date_range) = 2
    /\ Len(DateBlock(Loaded, date_range).rows) = 0
C8_EmptyRangeOutcome ==
    EmptyRange =>
        /\ Len(df.rows) = 0
        /\ outcome \in {"running", "done"}
        /\ (pc = "idle" => outcome = "done")
        /\ (~IsNa(kpi) => Val(kpi).col1 = Num(0) /\ Val(kpi).col2 = Dash)
        /\ (~IsNa(tab1) =>
                /\ Val(tab1).shown = <<>>
                /\ Val(tab1).kind = IF "Category" \in df.cols THEN "chart" ELSE "info")
        /\ (~IsNa(tab2) => Val(tab2).shown = <<>> /\ Val(tab2).kind = "chart")
        /\ (~IsNa(tab3) =>
                /\ Val(tab3).shown = <<>>
                /\ Val(tab3).kind = IF "SKU" \in df.cols \/ "Style" \in df.cols
                                    THEN "chart" ELSE "info")
        /\ (~IsNa(tab4) =>
                /\ Val(tab4).shown = <<>>
                /\ Val(tab4).kind = IF IsNa(FirstIn(possible_city, df.cols))
                                    THEN "warning" ELSE "info")

\* a run whose date range fell between the dated rows has finished
C8_Witness ==
    /\ outcome = "done"
    /\ EmptyRange
    /\ Len(Loaded.rows) > 1
    /\ "Category" \in df.cols

\* C8 as stated: such a run ends with an empty df, the revenue placeholder,
\* and a message instead of a chart in each of the four tabs.
NoDataKinds == {"info", "warning"}
C8_EmptyRangeShowsNoData ==
    outcome = "done" /\ EmptyRange =>
        /\ Len(df.rows) = 0
        /\ Val(kpi).col2 = Dash
        /\ Val(tab1).kind \in NoDataKinds
        /\ Val(tab2).kind \in NoDataKinds
        /\ Val(tab3).kind \in NoDataKinds
        /\ Val(tab4).kind \in NoDataKinds

\* ------------------------------------------------------------------------
\* C9: Avg Order Value shows the placeholder exactly when the mean is
\* undefined, and the mean, formatted, otherwise.
C9_PlaceholderIffUndefined ==
    ~IsNa(kpi) =>
        LET m == Val(kpi).avg_order_value
        IN  IF IsNa(m) THEN Val(kpi).col3 = Dash
            ELSE Val(kpi).col3 = Num(RoundHalfEven(Val(m).s, Val(m).n))

\* ------------------------------------------------------------------------
\* C10 as amended: the category, product and city charts take their rows
\* from the groupby, in descending order of summed amount, at most N of
\* them (12, 10, 150; for cities among the groups with positive revenue,
\* before coordinates are looked up), as many as N allows, and no group
\* left out has a larger sum than a group taken; the trend chart shows
\* every day's group in ascending day order, neither sorted by amount nor
\* truncated.
IsDescending(q) == \A i \in 1..(Len(q) - 1) : q[i].sum >= q[i + 1].sum
IsTopN(taken, candidates, grouped, n) ==
    /\ Len(taken) = Min2(n, Len(candidates))
    /\ Len(taken) <= n
    /\ IsDescending(taken)
    /\ Cardinality(Range(taken)) = Len(taken)
    /\ Range(taken) \subseteq Range(candidates)
    /\ \A g \in Range(taken) : \A h \in Range(grouped) \ Range(taken) : g.sum >= h.sum
C10_TopNCharts ==
    /\ (~IsNa(tab1) /\ Val(tab1).kind = "chart" =>
            IsTopN(Val(tab1).shown, Val(tab1).grouped, Val(tab1).grouped, TopCategories))
    /\ (~IsNa(tab3) /\ Val(tab3).kind = "chart" =>
            IsTopN(Val(tab3).shown, Val(tab3).grouped, Val(tab3).grouped, TopProducts))
    /\ (~IsNa(tab4) /\ Val(tab4).kind # "warning" =>
            IsTopN(Val(tab4).top,
                   SelectSeq(Val(tab4).grouped, LAMBDA g : g.sum > 0),
                   Val(tab4).grouped, top_n))
    /\ (~IsNa(tab2) /\ Val(tab2).kind = "chart" =>
            /\ Val(tab2).shown = Val(tab2).grouped
            /\ \A i \in 1..(Len(Val(tab2).shown) - 1) :
                   Val(tab2).shown[i].key < Val(tab2).shown[i + 1].key)

\* each of the three truncating charts had more groups than its N
C10_Witness ==
    /\ ~IsNa(tab4)
    /\ Len(Val(tab1).grouped) > TopCategories
    /\ Len(Val(tab3).grouped) > TopProducts
    /\ Len(Val(tab4).grouped) > top_n
    /\ Len(Val(tab4).top) = top_n

\* C10 as stated: every chart, the trend chart included, shows its groups
\* in descending order of summed amount, cut to its top N.
C10_EveryChartSortedTopN ==
    /\ (~IsNa(tab1) /\ Val(tab1).kind = "chart" =>
            IsDescending(Val(tab1).shown) /\ Len(Val(tab1).shown) <= TopCategories)
    /\ (~IsNa(tab2) /\ Val(tab2).kind = "chart" => IsDescending(Val(tab2).shown))
    /\ (~IsNa(tab3) /\ Val(tab3).kind = "chart" =>
            IsDescending(Val(tab3).shown) /\ Len(Val(tab3).shown) <= TopProducts)
    /\ (~IsNa(tab4) /\ Val(tab4).kind # "warning" =>
            IsDescending(Val(tab4).top) /\ Len(Val(tab4).top) <= top_n)

====
